---- MODULE Spec2Model ----
(***************************************************************************)
(* Rational Bernstein shape functions of libMesh, 1D and 3D:               *)
(*   src/src/fe/fe_rational_shape_1D.C, src/src/fe/fe_rational_shape_3D.C  *)
(*                                                                         *)
(* Every function of the two files is a pure function of its arguments,    *)
(* of the element's node weights and of the answers of FEInterface (the    *)
(* underlying Bernstein basis).  A state of the model is one call: its     *)
(* arguments, the element, the answers FEInterface gives for the call's    *)
(* (order, extra_order, p), and the outcome.  Real is modelled as exact    *)
(* rational arithmetic extended with +inf, -inf and NaN (rounding is not   *)
(* modelled, division by zero is).                                         *)
(***************************************************************************)
EXTENDS Integers, FiniteSets, Sequences, TLC

VARIABLES asserts, call, result

vars == <<asserts, call, result>>

(* Largest node weight of an element of the model. *)
MaxWeight == 1

(* The node counts of the elements of the model, which are also the        *)
(* shape-function counts FEInterface may report.  Three is the least count *)
(* at which the first derivatives of a partition of unity in two           *)
(* directions need not be proportional.                                    *)
NodeCounts == 1 .. 3

----------------------------------------------------------------------------
(* Real: <<n, d>> with d > 0 in lowest terms is n/d; <<1,0>> is +inf,      *)
(* <<-1,0>> is -inf, <<0,0>> is NaN.                                       *)

Abs(x) == IF x < 0 THEN -x ELSE x

Sign(x) == IF x < 0 THEN -1 ELSE IF x > 0 THEN 1 ELSE 0

RECURSIVE GCD(_, _)
GCD(a, b) == IF b = 0 THEN a ELSE GCD(b, a % b)

Norm(n, d) ==
  IF d = 0 THEN <<Sign(n), 0>>
  ELSE LET g == GCD(Abs(n), Abs(d))
       IN  <<(Sign(d) * n) \div g, Abs(d) \div g>>

Real(k) == <<k, 1>>

Zero == Real(0)

One == Real(1)

NaN == <<0, 0>>

Add(a, b) ==
  IF a[2] = 1 /\ b[2] = 1 THEN <<a[1] + b[1], 1>>
  ELSE IF a[2] = 0 /\ b[2] = 0 THEN (IF a[1] = b[1] THEN a ELSE NaN)
  ELSE IF a[2] = 0 THEN a
  ELSE IF b[2] = 0 THEN b
  ELSE Norm(a[1] * b[2] + b[1] * a[2], a[2] * b[2])

Neg(a) == <<-a[1], a[2]>>

Sub(a, b) == Add(a, Neg(b))

Mul(a, b) ==
  IF a[2] = 1 /\ b[2] = 1 THEN <<a[1] * b[1], 1>>
  ELSE IF a[2] = 0 \/ b[2] = 0
  THEN (IF a = NaN \/ b = NaN THEN NaN ELSE <<Sign(a[1] * b[1]), 0>>)
  ELSE Norm(a[1] * b[1], a[2] * b[2])

(* x / (+0) is sign(x) * inf and 0/0 is NaN; a zero divisor of these       *)
(* functions is a sum that started from the literal 0, hence +0.           *)
Div(a, b) ==
  IF b = NaN \/ a = NaN THEN NaN
  ELSE IF b[2] = 0 THEN (IF a[2] = 0 THEN NaN ELSE Zero)
  ELSE IF b[1] = 0 THEN <<Sign(a[1]), 0>>
  ELSE IF a[2] = 0 THEN <<Sign(a[1] * b[1]), 0>>
  ELSE Norm(a[1] * b[2], a[2] * b[1])

----------------------------------------------------------------------------
(* Vectors indexed from 0, as std::vector and the shape-function index.    *)

Vec(n, S) == [0 .. n - 1 -> S]

RECURSIVE SumTo(_, _)
SumTo(v, n) == IF n = 0 THEN Zero ELSE Add(SumTo(v, n - 1), v[n - 1])

Sum(v) == SumTo(v, Cardinality(DOMAIN v))

ZeroCol(n) == [sf \in 0 .. n - 1 |-> Zero]

(* A loop "x_sum += x[sf]; if (sf == i) x_i = x[sf];" over sf = 0..n-1     *)
(* leaves x_sum = ((0 + x[0]) + x[1]) + ... and x_i = x[i], or the initial *)
(* 0 when no sf equals i.                                                  *)
Accumulated(x, n) == SumTo(x, n)

Picked(x, n, i) == IF i \in 0 .. n - 1 THEN x[i] ELSE Zero

----------------------------------------------------------------------------
(* The inputs of a call.                                                   *)

(* Node weights: the extra datum of each node, elem->node_ref(n).          *)
WeightVals == {Real(k) : k \in 0 .. MaxWeight}

(* An element: its node count and the weight of each node. *)
Elems ==
  UNION {[n_nodes : {n}, weight : Vec(n, WeightVals)] : n \in NodeCounts}

Half == Norm(1, 2)

(* FEInterface::shape of the Bernstein family at one point, for all sf:    *)
(* non-negative values that sum to one.                                    *)
ShapeCols(n) == {v \in Vec(n, {Zero, Half, One}) : Sum(v) = One}

(* FEInterface::shape_deriv / shape_second_deriv of the Bernstein family   *)
(* in one direction at one point, for all sf: the derivatives of a         *)
(* partition of unity sum to zero.                                         *)
DerivCols(n) == {v \in Vec(n, {Real(-1), Zero, Real(1)}) : Sum(v) = Zero}

(* FEInterface::shape_second_deriv of the Bernstein family for one index   *)
(* at one point, for all sf: the zero column (a linear basis) and one      *)
(* column that sums to zero.                                               *)
HessCols(n) ==
  {ZeroCol(n), [sf \in 0 .. n - 1 |-> IF sf = 0 THEN Real(n - 1) ELSE Real(-1)]}

(* The answers of FEInterface for the (fe_type, extra_order, elem, p) of a *)
(* call: the shape-function count, the values, the first derivatives in    *)
(* directions 0..2 and the second derivatives for indices 0..5.  The       *)
(* directions in ds and the indices in hs are drawn freely, all others are *)
(* the zero column.                                                        *)
FEAnswers(ds, hs) ==
  UNION {
    {[n_sf   |-> n,
      shape  |-> s,
      deriv  |-> [d \in 0 .. 2 |-> IF d \in ds THEN dc[d] ELSE ZeroCol(n)],
      hess   |-> [h \in 0 .. 5 |-> IF h \in hs THEN hc[h] ELSE ZeroCol(n)]] :
        s \in ShapeCols(n), dc \in [ds -> DerivCols(n)], hc \in [hs -> HessCols(n)]}
    : n \in NodeCounts}

(* What a read past the end of node_weights may find in memory. *)
GarbageVals == {Real(0), Real(2)}

(* What indexing node_weights past its end can do: end the process, or     *)
(* yield whatever the memory holds.  No choice when every index is in      *)
(* range.                                                                  *)
UBOutcomes(elem, fe) ==
  IF fe.n_sf <= elem.n_nodes
  THEN {[crash |-> FALSE, mem |-> <<>>]}
  ELSE {[crash |-> TRUE, mem |-> <<>>]} \cup
       {[crash |-> FALSE, mem |-> m] : m \in [elem.n_nodes .. fe.n_sf - 1 -> GarbageVals]}

----------------------------------------------------------------------------
(* Outcomes.  fetched: the nodes whose weight was read from the element;   *)
(* indexed: the indices at which node_weights was read in the loop;        *)
(* queries: the FEInterface functions called, with the direction passed;   *)
(* node_weights: the weights the loop read.                                *)

Thrown(e, qs) ==
  [status |-> "error", err |-> e, value |-> NaN,
   fetched |-> {}, indexed |-> {}, queries |-> qs, node_weights |-> <<>>]

Crashed(elem, fe, qs) ==
  [status |-> "crash", err |-> "none", value |-> NaN,
   fetched |-> 0 .. elem.n_nodes - 1, indexed |-> 0 .. elem.n_nodes,
   queries |-> qs, node_weights |-> <<>>]

Returned(v, elem, fe, w, qs) ==
  [status |-> "ok", err |-> "none", value |-> v,
   fetched |-> 0 .. elem.n_nodes - 1, indexed |-> 0 .. fe.n_sf - 1,
   queries |-> qs, node_weights |-> w]

NoResult ==
  [status |-> "none", err |-> "none", value |-> NaN,
   fetched |-> {}, indexed |-> {}, queries |-> {}, node_weights |-> <<>>]

(* node_weights[sf] as the loop reads it. *)
NodeWeights(elem, fe, ub) ==
  [sf \in 0 .. fe.n_sf - 1 |->
     IF sf < elem.n_nodes THEN elem.weight[sf] ELSE ub.mem[sf]]

QCount == {<<"n_shape_functions", 0>>}

QShape == {<<"shape", 0>>}

(* libmesh_error_msg("Rational bases require the real element ...") *)
MissingGeometry == Thrown("MissingGeometry", {})

----------------------------------------------------------------------------
(* fe_rational_shape_1D.C                                                  *)

(* shape_loop_1D with the denominator summed without the weights. *)
shape_loop_1D_unweighted_sum(w, fe, i) ==
  LET weighted_shape == [sf \in 0 .. fe.n_sf - 1 |-> Mul(w[sf], fe.shape[sf])]
  IN  [weighted_sum     |-> Accumulated(fe.shape, fe.n_sf),
       weighted_shape_i |-> Picked(weighted_shape, fe.n_sf, i)]

shape_loop_1D(w, fe, i) ==
  LET weighted_shape == [sf \in 0 .. fe.n_sf - 1 |-> Mul(w[sf], fe.shape[sf])]
  IN  [weighted_sum     |-> Accumulated(weighted_shape, fe.n_sf),
       weighted_shape_i |-> Picked(weighted_shape, fe.n_sf, i)]

shape_return_1D(acc) == Div(acc.weighted_shape_i, acc.weighted_sum)

(* FE<1,RATIONAL_BERNSTEIN>::shape(const Elem *, ...); dbg: libmesh_assert *)
(* is compiled in.                                                         *)
shape_1D(elem, fe, i, dbg, ub) ==
  IF dbg /\ fe.n_sf # elem.n_nodes THEN Thrown("ShapeCountMismatch", QCount)
  ELSE IF ub.crash THEN Crashed(elem, fe, QCount \cup QShape)
  ELSE LET w   == NodeWeights(elem, fe, ub)
           acc == shape_loop_1D(w, fe, i)
       IN  Returned(shape_return_1D(acc), elem, fe, w, QCount \cup QShape)

(* FE<1,RATIONAL_BERNSTEIN>::shape(const ElemType, ...) *)
shape_1D_elemtype(i) == MissingGeometry

shape_deriv_loop_1D(w, fe, i) ==
  LET weighted_shape == [sf \in 0 .. fe.n_sf - 1 |-> Mul(w[sf], fe.shape[sf])]
      weighted_grad  == [sf \in 0 .. fe.n_sf - 1 |-> Mul(w[sf], fe.deriv[0][sf])]
  IN  [weighted_sum      |-> Accumulated(weighted_shape, fe.n_sf),
       weighted_grad_sum |-> Accumulated(weighted_grad, fe.n_sf),
       weighted_shape_i  |-> Picked(weighted_shape, fe.n_sf, i),
       weighted_grad_i   |-> Picked(weighted_grad, fe.n_sf, i)]

shape_deriv_return_1D(acc) ==
  Div(Div(Sub(Mul(acc.weighted_sum, acc.weighted_grad_i),
              Mul(acc.weighted_shape_i, acc.weighted_grad_sum)),
          acc.weighted_sum),
      acc.weighted_sum)

(* The direction check left out of every build. *)
direction_rejected_1D_never(j, dbg) == FALSE

(* libmesh_assert_equal_to (j, 0): checked only when assertions are        *)
(* compiled in; j is otherwise unused (libmesh_dbg_var).                   *)
direction_rejected_1D(j, dbg) == dbg /\ j # 0

QDeriv1D == {<<"shape_deriv", 0>>}

(* FE<1,RATIONAL_BERNSTEIN>::shape_deriv(const Elem *, ...) *)
shape_deriv_1D(elem, fe, i, j, dbg, ub) ==
  IF direction_rejected_1D(j, dbg) THEN Thrown("InvalidDirectionIndex", {})
  ELSE IF dbg /\ fe.n_sf # elem.n_nodes THEN Thrown("ShapeCountMismatch", QCount)
  ELSE IF ub.crash THEN Crashed(elem, fe, QCount \cup QShape \cup QDeriv1D)
  ELSE LET w   == NodeWeights(elem, fe, ub)
           acc == shape_deriv_loop_1D(w, fe, i)
       IN  Returned(shape_deriv_return_1D(acc), elem, fe, w,
                    QCount \cup QShape \cup QDeriv1D)

(* FE<1,RATIONAL_BERNSTEIN>::shape_deriv(const ElemType, ...) *)
shape_deriv_1D_elemtype(i, j) == MissingGeometry

shape_second_deriv_loop_1D(w, fe, i) ==
  LET weighted_shape == [sf \in 0 .. fe.n_sf - 1 |-> Mul(w[sf], fe.shape[sf])]
      weighted_grad  == [sf \in 0 .. fe.n_sf - 1 |-> Mul(w[sf], fe.deriv[0][sf])]
      weighted_hess  == [sf \in 0 .. fe.n_sf - 1 |-> Mul(w[sf], fe.hess[0][sf])]
  IN  [weighted_sum      |-> Accumulated(weighted_shape, fe.n_sf),
       weighted_grad_sum |-> Accumulated(weighted_grad, fe.n_sf),
       weighted_hess_sum |-> Accumulated(weighted_hess, fe.n_sf),
       weighted_shape_i  |-> Picked(weighted_shape, fe.n_sf, i),
       weighted_grad_i   |-> Picked(weighted_grad, fe.n_sf, i),
       weighted_hess_i   |-> Picked(weighted_hess, fe.n_sf, i)]

(* shape_second_deriv_return_1D without the factor 2. *)
shape_second_deriv_return_1D_no_two(acc) ==
  LET ws == acc.weighted_sum
  IN  Div(Sub(Mul(Mul(ws, ws),
                  Sub(Mul(ws, acc.weighted_hess_i),
                      Mul(acc.weighted_shape_i, acc.weighted_hess_sum))),
              Mul(Mul(Sub(Mul(ws, acc.weighted_grad_i),
                          Mul(acc.weighted_shape_i, acc.weighted_grad_sum)),
                      ws),
                  acc.weighted_grad_sum)),
          Mul(Mul(Mul(ws, ws), ws), ws))

shape_second_deriv_return_1D(acc) ==
  LET ws == acc.weighted_sum
  IN  Div(Sub(Mul(Mul(ws, ws),
                  Sub(Mul(ws, acc.weighted_hess_i),
                      Mul(acc.weighted_shape_i, acc.weighted_hess_sum))),
              Mul(Mul(Mul(Sub(Mul(ws, acc.weighted_grad_i),
                              Mul(acc.weighted_shape_i, acc.weighted_grad_sum)),
                          Real(2)),
                      ws),
                  acc.weighted_grad_sum)),
          Mul(Mul(Mul(ws, ws), ws), ws))

QHess1D == {<<"shape_second_deriv", 0>>}

(* FE<1,RATIONAL_BERNSTEIN>::shape_second_deriv(const Elem *, ...) *)
shape_second_deriv_1D(elem, fe, i, j, dbg, ub) ==
  IF direction_rejected_1D(j, dbg) THEN Thrown("InvalidDirectionIndex", {})
  ELSE IF dbg /\ fe.n_sf # elem.n_nodes THEN Thrown("ShapeCountMismatch", QCount)
  ELSE IF ub.crash
       THEN Crashed(elem, fe, QCount \cup QShape \cup QDeriv1D \cup QHess1D)
  ELSE LET w   == NodeWeights(elem, fe, ub)
           acc == shape_second_deriv_loop_1D(w, fe, i)
       IN  Returned(shape_second_deriv_return_1D(acc), elem, fe, w,
                    QCount \cup QShape \cup QDeriv1D \cup QHess1D)

(* FE<1,RATIONAL_BERNSTEIN>::shape_second_deriv(const ElemType, ...) *)
shape_second_deriv_1D_elemtype(i, j) == MissingGeometry

----------------------------------------------------------------------------
(* fe_rational_shape_3D.C                                                  *)

(* shape_loop_3D with the loop started at sf = 1. *)
shape_loop_3D_from_one(w, fe, i) ==
  LET weighted_shape == [sf \in 0 .. fe.n_sf - 1 |->
                           IF sf = 0 THEN Zero ELSE Mul(w[sf], fe.shape[sf])]
  IN  [weighted_sum     |-> Accumulated(weighted_shape, fe.n_sf),
       weighted_shape_i |-> Picked(weighted_shape, fe.n_sf, i)]

shape_loop_3D(w, fe, i) ==
  LET weighted_shape == [sf \in 0 .. fe.n_sf - 1 |-> Mul(w[sf], fe.shape[sf])]
  IN  [weighted_sum     |-> Accumulated(weighted_shape, fe.n_sf),
       weighted_shape_i |-> Picked(weighted_shape, fe.n_sf, i)]

shape_return_3D(acc) == Div(acc.weighted_shape_i, acc.weighted_sum)

(* FE<3,RATIONAL_BERNSTEIN>::shape(const Elem *, ...) *)
shape_3D(elem, fe, i, dbg, ub) ==
  IF dbg /\ fe.n_sf # elem.n_nodes THEN Thrown("ShapeCountMismatch", QCount)
  ELSE IF ub.crash THEN Crashed(elem, fe, QCount \cup QShape)
  ELSE LET w   == NodeWeights(elem, fe, ub)
           acc == shape_loop_3D(w, fe, i)
       IN  Returned(shape_return_3D(acc), elem, fe, w, QCount \cup QShape)

(* FE<3,RATIONAL_BERNSTEIN>::shape(const ElemType, ...) *)
shape_3D_elemtype(i) == MissingGeometry

(* The 1D direction, 0, passed in 3D. *)
deriv_direction_3D_zero(j) == 0

(* The direction shape_deriv passes to FEInterface::shape_deriv. *)
deriv_direction_3D(j) == j

shape_deriv_loop_3D(w, fe, i, j) ==
  LET weighted_shape == [sf \in 0 .. fe.n_sf - 1 |-> Mul(w[sf], fe.shape[sf])]
      weighted_grad  == [sf \in 0 .. fe.n_sf - 1 |->
                           Mul(w[sf], fe.deriv[deriv_direction_3D(j)][sf])]
  IN  [weighted_sum      |-> Accumulated(weighted_shape, fe.n_sf),
       weighted_grad_sum |-> Accumulated(weighted_grad, fe.n_sf),
       weighted_shape_i  |-> Picked(weighted_shape, fe.n_sf, i),
       weighted_grad_i   |-> Picked(weighted_grad, fe.n_sf, i)]

shape_deriv_return_3D(acc) ==
  Div(Div(Sub(Mul(acc.weighted_sum, acc.weighted_grad_i),
              Mul(acc.weighted_shape_i, acc.weighted_grad_sum)),
          acc.weighted_sum),
      acc.weighted_sum)

(* FE<3,RATIONAL_BERNSTEIN>::shape_deriv(const Elem *, ...) *)
shape_deriv_3D(elem, fe, i, j, dbg, ub) ==
  LET qs == QCount \cup QShape \cup {<<"shape_deriv", deriv_direction_3D(j)>>}
  IN  IF dbg /\ fe.n_sf # elem.n_nodes THEN Thrown("ShapeCountMismatch", QCount)
      ELSE IF ub.crash THEN Crashed(elem, fe, qs)
      ELSE LET w   == NodeWeights(elem, fe, ub)
               acc == shape_deriv_loop_3D(w, fe, i, j)
           IN  Returned(shape_deriv_return_3D(acc), elem, fe, w, qs)

(* shape_deriv(const ElemType, ...) without the libmesh_error_msg: the     *)
(* "return 0." after it is reached.                                        *)
shape_deriv_3D_elemtype_returns(i, j) ==
  [status |-> "ok", err |-> "none", value |-> Zero,
   fetched |-> {}, indexed |-> {}, queries |-> {}, node_weights |-> <<>>]

(* FE<3,RATIONAL_BERNSTEIN>::shape_deriv(const ElemType, ...) *)
shape_deriv_3D_elemtype(i, j) == MissingGeometry

(* decode_3D with the cases 3 and 4 exchanged. *)
decode_3D_exchanged(j) ==
  CASE j = 0 -> [valid |-> TRUE, j1 |-> 0, j2 |-> 0]
    [] j = 1 -> [valid |-> TRUE, j1 |-> 0, j2 |-> 1]
    [] j = 2 -> [valid |-> TRUE, j1 |-> 1, j2 |-> 1]
    [] j = 3 -> [valid |-> TRUE, j1 |-> 1, j2 |-> 2]
    [] j = 4 -> [valid |-> TRUE, j1 |-> 0, j2 |-> 2]
    [] j = 5 -> [valid |-> TRUE, j1 |-> 2, j2 |-> 2]
    [] OTHER -> [valid |-> FALSE, j1 |-> 0, j2 |-> 0]

(* switch (j) of shape_second_deriv: the axis pair of a mixed index, or    *)
(* libmesh_error() in the default branch.                                  *)
decode_3D(j) ==
  CASE j = 0 -> [valid |-> TRUE, j1 |-> 0, j2 |-> 0]
    [] j = 1 -> [valid |-> TRUE, j1 |-> 0, j2 |-> 1]
    [] j = 2 -> [valid |-> TRUE, j1 |-> 1, j2 |-> 1]
    [] j = 3 -> [valid |-> TRUE, j1 |-> 0, j2 |-> 2]
    [] j = 4 -> [valid |-> TRUE, j1 |-> 1, j2 |-> 2]
    [] j = 5 -> [valid |-> TRUE, j1 |-> 2, j2 |-> 2]
    [] OTHER -> [valid |-> FALSE, j1 |-> 0, j2 |-> 0]

(* The loop of shape_second_deriv for the axis pair (j1, j2) and the       *)
(* second-derivative column hcol.  weighted_grada_sum receives             *)
(* weighted_grada once per node, and once more per node in the j1 != j2    *)
(* branch; weighted_gradb_sum is not accumulated in the loop.              *)
shape_second_deriv_loop_3D(w, fe, i, j1, j2, hcol) ==
  LET weighted_shape == [sf \in 0 .. fe.n_sf - 1 |-> Mul(w[sf], fe.shape[sf])]
      weighted_grada == [sf \in 0 .. fe.n_sf - 1 |-> Mul(w[sf], fe.deriv[j1][sf])]
      weighted_hess  == [sf \in 0 .. fe.n_sf - 1 |-> Mul(w[sf], hcol[sf])]
      weighted_gradb == IF j1 # j2
                        THEN [sf \in 0 .. fe.n_sf - 1 |-> Mul(w[sf], fe.deriv[j2][sf])]
                        ELSE weighted_grada
      grada_added    == IF j1 # j2
                        THEN [k \in 0 .. 2 * fe.n_sf - 1 |-> weighted_grada[k \div 2]]
                        ELSE weighted_grada
  IN  [weighted_sum       |-> Accumulated(weighted_shape, fe.n_sf),
       weighted_grada_sum |-> Accumulated(grada_added,
                                          IF j1 # j2 THEN 2 * fe.n_sf ELSE fe.n_sf),
       weighted_gradb_sum |-> Zero,
       weighted_hess_sum  |-> Accumulated(weighted_hess, fe.n_sf),
       weighted_shape_i   |-> Picked(weighted_shape, fe.n_sf, i),
       weighted_grada_i   |-> Picked(weighted_grada, fe.n_sf, i),
       weighted_gradb_i   |-> Picked(weighted_gradb, fe.n_sf, i),
       weighted_hess_i    |-> Picked(weighted_hess, fe.n_sf, i)]

(* if (j1 == j2) weighted_gradb_sum = weighted_grada_sum; and the return.  *)
shape_second_deriv_return_3D(acc0, j1, j2) ==
  LET acc == IF j1 = j2
             THEN [acc0 EXCEPT !.weighted_gradb_sum = acc0.weighted_grada_sum]
             ELSE acc0
      ws  == acc.weighted_sum
  IN  Div(Div(Add(Sub(Sub(Sub(Mul(ws, acc.weighted_hess_i),
                              Mul(acc.weighted_grada_i, acc.weighted_gradb_sum)),
                          Mul(acc.weighted_shape_i, acc.weighted_hess_sum)),
                      Mul(acc.weighted_gradb_i, acc.weighted_grada_sum)),
                  Div(Mul(Mul(Mul(Real(2), acc.weighted_grada_sum),
                              acc.weighted_shape_i),
                          acc.weighted_gradb_sum),
                      ws)),
              ws),
          ws)

(* The body of shape_second_deriv after the switch, for the axis pair      *)
(* (j1, j2) and the mixed index j passed to shape_second_deriv.            *)
shape_second_deriv_body_3D(elem, fe, i, j, j1, j2, dbg, ub) ==
  LET qs == QCount \cup QShape \cup {<<"shape_deriv", j1>>, <<"shape_deriv", j2>>}
              \cup {<<"shape_second_deriv", j>>}
  IN  IF dbg /\ fe.n_sf # elem.n_nodes THEN Thrown("ShapeCountMismatch", QCount)
      ELSE IF ub.crash THEN Crashed(elem, fe, qs)
      ELSE LET w   == NodeWeights(elem, fe, ub)
               acc == shape_second_deriv_loop_3D(w, fe, i, j1, j2, fe.hess[j])
           IN  Returned(shape_second_deriv_return_3D(acc, j1, j2), elem, fe, w, qs)

(* FE<3,RATIONAL_BERNSTEIN>::shape_second_deriv(const Elem *, ...) *)
shape_second_deriv_3D(elem, fe, i, j, dbg, ub) ==
  LET d == decode_3D(j)
  IN  IF ~d.valid THEN Thrown("InvalidDirectionIndex", {})
      ELSE shape_second_deriv_body_3D(elem, fe, i, j, d.j1, d.j2, dbg, ub)

(* FE<3,RATIONAL_BERNSTEIN>::shape_second_deriv(const ElemType, ...) *)
shape_second_deriv_3D_elemtype(i, j) == MissingGeometry

----------------------------------------------------------------------------
(* The calls.  Each action is one call of one function of the two files,   *)
(* made when no call has been made yet: it draws the arguments, the        *)
(* element and FEInterface's answers, and records the outcome.  The        *)
(* functions keep no state, so a behaviour is one call.                    *)

NoElem == [n_nodes |-> 0, weight |-> <<>>]

NoFE ==
  [n_sf |-> 0, shape |-> <<>>,
   deriv |-> [d \in 0 .. 2 |-> <<>>], hess |-> [h \in 0 .. 5 |-> <<>>]]

NoUB == [crash |-> FALSE, mem |-> <<>>]

(* The direction arguments a caller may pass (unsigned int). *)
DirArgs == 0 .. 2

(* The mixed-index arguments a caller may pass to the 3D second            *)
(* derivative: the six valid ones and one past them.                       *)
MixedArgs == 0 .. 6

(* The shape index arguments of the geometry-free overloads. *)
IndexArgs == 0 .. 3

Call(dim, fn, elem, fe, i, j, ub) ==
  [dim |-> dim, fn |-> fn, geom |-> TRUE, elem |-> elem, fe |-> fe,
   i |-> i, j |-> j, ub |-> ub]

CallElemType(dim, fn, i, j) ==
  [dim |-> dim, fn |-> fn, geom |-> FALSE, elem |-> NoElem, fe |-> NoFE,
   i |-> i, j |-> j, ub |-> NoUB]

Init ==
  /\ asserts \in BOOLEAN
  /\ call = [dim |-> 0, fn |-> "none", geom |-> FALSE, elem |-> NoElem,
             fe |-> NoFE, i |-> 0, j |-> 0, ub |-> NoUB]
  /\ result = NoResult

Shape1D ==
  /\ result.status = "none"
  /\ \E elem \in Elems, fe \in FEAnswers({}, {}) :
       \E i \in 0 .. fe.n_sf - 1, ub \in UBOutcomes(elem, fe) :
         /\ call' = Call(1, "shape", elem, fe, i, 0, ub)
         /\ result' = shape_1D(elem, fe, i, asserts, ub)
         /\ UNCHANGED asserts

ShapeDeriv1D ==
  /\ result.status = "none"
  /\ \E elem \in Elems, fe \in FEAnswers({0}, {}), j \in DirArgs :
       \E i \in 0 .. fe.n_sf - 1, ub \in UBOutcomes(elem, fe) :
         /\ call' = Call(1, "shape_deriv", elem, fe, i, j, ub)
         /\ result' = shape_deriv_1D(elem, fe, i, j, asserts, ub)
         /\ UNCHANGED asserts

ShapeSecondDeriv1D ==
  /\ result.status = "none"
  /\ \E elem \in Elems, fe \in FEAnswers({0}, {0}), j \in DirArgs :
       \E i \in 0 .. fe.n_sf - 1, ub \in UBOutcomes(elem, fe) :
         /\ call' = Call(1, "shape_second_deriv", elem, fe, i, j, ub)
         /\ result' = shape_second_deriv_1D(elem, fe, i, j, asserts, ub)
         /\ UNCHANGED asserts

Shape3D ==
  /\ result.status = "none"
  /\ \E elem \in Elems, fe \in FEAnswers({}, {}) :
       \E i \in 0 .. fe.n_sf - 1, ub \in UBOutcomes(elem, fe) :
         /\ call' = Call(3, "shape", elem, fe, i, 0, ub)
         /\ result' = shape_3D(elem, fe, i, asserts, ub)
         /\ UNCHANGED asserts

ShapeDeriv3D ==
  /\ result.status = "none"
  /\ \E j \in DirArgs :
       \E fe \in FEAnswers({j}, {}), elem \in Elems :
         \E i \in 0 .. fe.n_sf - 1, ub \in UBOutcomes(elem, fe) :
         /\ call' = Call(3, "shape_deriv", elem, fe, i, j, ub)
           /\ result' = shape_deriv_3D(elem, fe, i, j, asserts, ub)
           /\ UNCHANGED asserts

ShapeSecondDeriv3D ==
  /\ result.status = "none"
  /\ \E j \in MixedArgs :
       \E fe \in FEAnswers(IF j \in 0 .. 5 THEN {decode_3D(j).j1, decode_3D(j).j2} ELSE {},
                           {j} \cap 0 .. 5), elem \in Elems :
         \E i \in 0 .. fe.n_sf - 1, ub \in UBOutcomes(elem, fe) :
         /\ call' = Call(3, "shape_second_deriv", elem, fe, i, j, ub)
           /\ result' = shape_second_deriv_3D(elem, fe, i, j, asserts, ub)
           /\ UNCHANGED asserts

ShapeElemType1D ==
  /\ result.status = "none"
  /\ \E i \in IndexArgs :
       /\ call' = CallElemType(1, "shape", i, 0)
       /\ result' = shape_1D_elemtype(i)
       /\ UNCHANGED asserts

ShapeDerivElemType1D ==
  /\ result.status = "none"
  /\ \E i \in IndexArgs, j \in DirArgs :
       /\ call' = CallElemType(1, "shape_deriv", i, j)
       /\ result' = shape_deriv_1D_elemtype(i, j)
       /\ UNCHANGED asserts

ShapeSecondDerivElemType1D ==
  /\ result.status = "none"
  /\ \E i \in IndexArgs, j \in DirArgs :
       /\ call' = CallElemType(1, "shape_second_deriv", i, j)
       /\ result' = shape_second_deriv_1D_elemtype(i, j)
       /\ UNCHANGED asserts

ShapeElemType3D ==
  /\ result.status = "none"
  /\ \E i \in IndexArgs :
       /\ call' = CallElemType(3, "shape", i, 0)
       /\ result' = shape_3D_elemtype(i)
       /\ UNCHANGED asserts

ShapeDerivElemType3D ==
  /\ result.status = "none"
  /\ \E i \in IndexArgs, j \in DirArgs :
       /\ call' = CallElemType(3, "shape_deriv", i, j)
       /\ result' = shape_deriv_3D_elemtype(i, j)
       /\ UNCHANGED asserts

ShapeSecondDerivElemType3D ==
  /\ result.status = "none"
  /\ \E i \in IndexArgs, j \in MixedArgs :
       /\ call' = CallElemType(3, "shape_second_deriv", i, j)
       /\ result' = shape_second_deriv_3D_elemtype(i, j)
       /\ UNCHANGED asserts

ValueCalls == Shape1D \/ Shape3D

FirstDerivCalls == ShapeDeriv1D \/ ShapeDeriv3D

SecondDerivCalls1D == ShapeSecondDeriv1D

SecondDerivCalls3D == ShapeSecondDeriv3D

ElemTypeCalls ==
  \/ ShapeElemType1D
  \/ ShapeDerivElemType1D
  \/ ShapeSecondDerivElemType1D
  \/ ShapeElemType3D
  \/ ShapeDerivElemType3D
  \/ ShapeSecondDerivElemType3D

Next ==
  \/ ValueCalls
  \/ FirstDerivCalls
  \/ SecondDerivCalls1D
  \/ SecondDerivCalls3D
  \/ ElemTypeCalls

(* Every function of the two files. *)
Spec == Init /\ [][Next]_vars

(* The functions of one kind alone. *)
SpecValue == Init /\ [][ValueCalls]_vars

SpecFirstDeriv == Init /\ [][FirstDerivCalls]_vars

SpecSecondDeriv1D == Init /\ [][SecondDerivCalls1D]_vars

SpecSecondDeriv3D == Init /\ [][SecondDerivCalls3D]_vars

SpecDerivs1D == Init /\ [][ShapeDeriv1D \/ ShapeSecondDeriv1D]_vars

SpecElemType == Init /\ [][ElemTypeCalls]_vars

----------------------------------------------------------------------------
(* The quantities the properties are stated in: the weights of the         *)
(* element of the call and the answers of FEInterface, summed over the     *)
(* nodes.                                                                  *)

RECURSIVE SumOver(_, _)
SumOver(S, f) ==
  IF S = {} THEN Zero
  ELSE LET x == CHOOSE y \in S : TRUE
       IN  Add(f[x], SumOver(S \ {x}, f))

Nodes == 0 .. call.elem.n_nodes - 1

(* w[sf] * col[sf] for every node sf. *)
Weighted(col) == [sf \in Nodes |-> Mul(call.elem.weight[sf], col[sf])]

(* A call on a concrete element that returned, on an element whose node    *)
(* count is the shape-function count (the weights w[sf] of all shape       *)
(* functions exist).                                                       *)
ReturnedFrom(dim, fn) ==
  /\ call.geom
  /\ call.dim = dim
  /\ call.fn = fn
  /\ result.status = "ok"
  /\ call.fe.n_sf = call.elem.n_nodes

Denom == SumOver(Nodes, Weighted(call.fe.shape))

Numer == Weighted(call.fe.shape)[call.i]

(* Value for shape index k on the element and at the point of the call. *)
ValueAt(k) ==
  IF call.dim = 1
  THEN shape_1D(call.elem, call.fe, k, asserts, call.ub).value
  ELSE shape_3D(call.elem, call.fe, k, asserts, call.ub).value

(* The value the call returned and the values of all other shape indices. *)
Values == [k \in Nodes |-> IF k = call.i THEN result.value ELSE ValueAt(k)]

(* C1. Partition of unity: on every element, 1D or 3D, and at every point  *)
(* where denom = sum of w[sf]*N[sf] is not zero, the values of all shape   *)
(* indices sum to one.                                                     *)
C1_PartitionOfUnity ==
  ((ReturnedFrom(1, "shape") \/ ReturnedFrom(3, "shape")) /\ Denom # Zero)
    => SumOver(Nodes, Values) = One

(* A 3D value call on an element with unequal weights, away from the       *)
(* corners (the value is neither 0 nor 1).                                 *)
C1_Witness ==
  /\ ReturnedFrom(3, "shape")
  /\ Denom # Zero
  /\ call.elem.n_nodes = 3
  /\ \E a, b \in Nodes : call.elem.weight[a] # call.elem.weight[b]
  /\ result.value \notin {Zero, One}

(* C5. Degenerate reduction: when every node weight is 1, Value is the     *)
(* value of the underlying Bernstein basis for the same shape index and    *)
(* point.                                                                  *)
C5_DegenerateReduction ==
  ((ReturnedFrom(1, "shape") \/ ReturnedFrom(3, "shape"))
     /\ \A n \in Nodes : call.elem.weight[n] = One)
    => result.value = call.fe.shape[call.i]

(* A 1D value call with all weights 1 away from the corners. *)
C5_Witness ==
  /\ ReturnedFrom(1, "shape")
  /\ call.elem.n_nodes = 3
  /\ \A n \in Nodes : call.elem.weight[n] = One
  /\ result.value = Half

(* C3. Every geometry-free overload (element-type tag instead of an        *)
(* element) fails with MissingGeometry and returns no value, in 1D and 3D  *)
(* and for all three derivative orders, whatever its arguments.            *)
C3_MissingGeometry ==
  (call.fn # "none" /\ ~call.geom)
    => /\ result.status = "error"
       /\ result.err = "MissingGeometry"

(* The geometry-free 3D second derivative was called and failed. *)
C3_Witness ==
  /\ ~call.geom
  /\ call.dim = 3
  /\ call.fn = "shape_second_deriv"
  /\ call.j = 4
  /\ result.err = "MissingGeometry"

(* The axis pair of each valid mixed index. *)
AxisPair ==
  [j \in 0 .. 5 |->
     IF j = 0 THEN <<0, 0>> ELSE IF j = 1 THEN <<0, 1>> ELSE IF j = 2 THEN <<1, 1>>
     ELSE IF j = 3 THEN <<0, 2>> ELSE IF j = 4 THEN <<1, 2>> ELSE <<2, 2>>]

(* The directions in which a call asked FEInterface for first derivatives. *)
DerivDirections == {q[2] : q \in {r \in result.queries : r[1] = "shape_deriv"}}

(* C4. The 3D second derivative with a mixed index outside 0..5 fails with *)
(* InvalidDirectionIndex before any node weight is read and before         *)
(* FEInterface is asked anything; with an index in 0..5 it raises no such  *)
(* error and works with the axis pair 0->(0,0), 1->(0,1), 2->(1,1),        *)
(* 3->(0,2), 4->(1,2), 5->(2,2).                                           *)
C4_MixedIndexDecoding ==
  (call.geom /\ call.dim = 3 /\ call.fn = "shape_second_deriv")
    => /\ call.j \notin 0 .. 5 =>
            /\ result.status = "error"
            /\ result.err = "InvalidDirectionIndex"
            /\ result.fetched = {}
            /\ result.indexed = {}
            /\ result.queries = {}
       /\ call.j \in 0 .. 5 =>
            /\ result.err # "InvalidDirectionIndex"
            /\ <<decode_3D(call.j).j1, decode_3D(call.j).j2>> = AxisPair[call.j]
            /\ result.status = "ok" =>
                 DerivDirections = {AxisPair[call.j][1], AxisPair[call.j][2]}

(* The 3D second derivative was called with mixed index 6 and failed. *)
C4_Witness ==
  /\ call.geom
  /\ call.dim = 3
  /\ call.fn = "shape_second_deriv"
  /\ call.j = 6
  /\ call.elem.n_nodes = 3
  /\ result.err = "InvalidDirectionIndex"

(* A call of a 1D derivative function on an element with a direction     *)
(* other than 0.                                                           *)
NonZeroDirection1D ==
  /\ call.geom
  /\ call.dim = 1
  /\ call.fn \in {"shape_deriv", "shape_second_deriv"}
  /\ call.j # 0

(* The outcome of the same call with direction 0. *)
WithDirectionZero ==
  IF call.fn = "shape_deriv"
  THEN shape_deriv_1D(call.elem, call.fe, call.i, 0, asserts, call.ub)
  ELSE shape_second_deriv_1D(call.elem, call.fe, call.i, 0, asserts, call.ub)

C7_ShapeCountMismatchRejected ==
  call.geom
    => /\ call.fe.n_sf # call.elem.n_nodes =>
            /\ result.status = "error"
            /\ result.indexed = {}
       /\ \A sf \in result.indexed : sf < call.elem.n_nodes

(* The axis pair of the mixed index of the call. *)
J1 == AxisPair[call.j][1]

J2 == AxisPair[call.j][2]

GradA == Weighted(call.fe.deriv[J1])

GradB == Weighted(call.fe.deriv[J2])

Hess == Weighted(call.fe.hess[call.j])

(* (denom*numerH - numerA*gradbSum - numer*hessSum - numerB*gradaSum       *)
(*   + 2*gradaSum*numer*gradbSum/denom) / denom^2                          *)
MixedSecondDerivative(denom, numer, numerA, numerB, numerH, gradaSum, gradbSum, hessSum) ==
  Div(Add(Sub(Sub(Sub(Mul(denom, numerH), Mul(numerA, gradbSum)),
                  Mul(numer, hessSum)),
              Mul(numerB, gradaSum)),
          Div(Mul(Mul(Mul(Real(2), gradaSum), numer), gradbSum), denom)),
      Mul(denom, denom))

(* C8. The 3D second derivative for j in 0..5 and denom # 0 is the mixed   *)
(* second partial of numer/denom, with gradaSum the sum over all nodes of  *)
(* w[sf]*firstDerivative(sf, j1), each node counted once, gradbSum the sum *)
(* of w[sf]*firstDerivative(sf, j2), hessSum the sum of                    *)
(* w[sf]*secondDerivative(sf, j), and numerA, numerB, numerH their sf = i  *)
(* terms.                                                                  *)
C8_MixedSecondDerivativeFormula ==
  (ReturnedFrom(3, "shape_second_deriv") /\ Denom # Zero)
    => result.value =
         MixedSecondDerivative(Denom, Numer, GradA[call.i], GradB[call.i], Hess[call.i],
                               SumOver(Nodes, GradA), SumOver(Nodes, GradB),
                               SumOver(Nodes, Hess))

(* C2. The 3D second derivative for a mixed index j in {1, 3, 4} with axis *)
(* pair (j1, j2) equals the result computed with the two axes exchanged,   *)
(* (j2, j1).                                                               *)
C2_MixedPartialSymmetry ==
  (ReturnedFrom(3, "shape_second_deriv") /\ call.j \in {1, 3, 4})
    => result.value =
         shape_second_deriv_body_3D(call.elem, call.fe, call.i, call.j, J2, J1,
                                    asserts, call.ub).value

(* The direction of the first derivative of the call. *)
Direction == IF call.dim = 1 THEN 0 ELSE call.j

Grad == Weighted(call.fe.deriv[Direction])

(* C9. FirstDerivative, in 1D with direction 0 and in 3D with direction j, *)
(* is (denom*numerGrad - numer*denomGrad) / denom^2 with denomGrad the sum *)
(* over all nodes of w[sf]*firstDerivative(sf, direction) and numerGrad    *)
(* its sf = i term; in 3D the direction asked of FEInterface is j.         *)
C9_FirstDerivativeQuotientRule ==
  (((ReturnedFrom(1, "shape_deriv") /\ call.j = 0) \/ ReturnedFrom(3, "shape_deriv"))
     /\ Denom # Zero)
    => /\ result.value =
            Div(Sub(Mul(Denom, Grad[call.i]), Mul(Numer, SumOver(Nodes, Grad))),
                Mul(Denom, Denom))
       /\ DerivDirections = {Direction}

(* A 3D first derivative in direction 2 on an element with unequal         *)
(* weights, with a non-zero result.                                        *)
C9_Witness ==
  /\ ReturnedFrom(3, "shape_deriv")
  /\ call.j = 2
  /\ Denom # Zero
  /\ \E a, b \in Nodes : call.elem.weight[a] # call.elem.weight[b]
  /\ SumOver(Nodes, Grad) # Zero
  /\ result.value # Zero

(* The second derivative of n/d from n, n', n'', d, d', d'':               *)
(* n''/d - 2 n' d'/d^2 - n d''/d^2 + 2 n d'^2/d^3.                         *)
QuotientSecondDerivative(n, n1, n2, d, d1, d2) ==
  Add(Sub(Sub(Div(n2, d),
              Div(Mul(Mul(Real(2), n1), d1), Mul(d, d))),
          Div(Mul(n, d2), Mul(d, d))),
      Div(Mul(Mul(Real(2), n), Mul(d1, d1)), Mul(Mul(d, d), d)))

Grad1D == Weighted(call.fe.deriv[0])

Hess1D == Weighted(call.fe.hess[0])

(* C10. The 1D second derivative is                                        *)
(* (denom^2*(denom*numerHess - numer*denomHess)                            *)
(*   - (denom*numerGrad - numer*denomGrad)*2*denom*denomGrad) / denom^4,   *)
(* which is the second derivative of the ratio numer/denom.                *)
C10_SecondDerivative1D ==
  (ReturnedFrom(1, "shape_second_deriv") /\ call.j = 0 /\ Denom # Zero)
    => LET numerGrad == Grad1D[call.i]
           denomGrad == SumOver(Nodes, Grad1D)
           numerHess == Hess1D[call.i]
           denomHess == SumOver(Nodes, Hess1D)
           denom2    == Mul(Denom, Denom)
       IN  /\ result.value =
                Div(Sub(Mul(denom2, Sub(Mul(Denom, numerHess), Mul(Numer, denomHess))),
                        Mul(Sub(Mul(Denom, numerGrad), Mul(Numer, denomGrad)),
                            Mul(Mul(Real(2), Denom), denomGrad))),
                    Mul(denom2, denom2))
           /\ result.value =
                QuotientSecondDerivative(Numer, numerGrad, numerHess,
                                         Denom, denomGrad, denomHess)

(* A 1D second derivative on an element with unequal weights where the     *)
(* first- and second-derivative sums are not zero.                         *)
C10_Witness ==
  /\ ReturnedFrom(1, "shape_second_deriv")
  /\ call.j = 0
  /\ Denom # Zero
  /\ SumOver(Nodes, Grad1D) # Zero
  /\ SumOver(Nodes, Hess1D) # Zero
  /\ Grad1D[call.i] # Zero
  /\ result.value # Zero

(* The 3D second derivative for shape index k, on the element, at the      *)
(* point and for the mixed index of the call.                              *)
SecondDerivativeAt(k) ==
  shape_second_deriv_3D(call.elem, call.fe, k, call.j, asserts, call.ub).value

(* The second derivative the call returned and those of all other shape    *)
(* indices.                                                                *)
SecondDerivatives ==
  [k \in Nodes |-> IF k = call.i THEN result.value ELSE SecondDerivativeAt(k)]

(* C11. Derivatives of the partition of unity vanish in 3D second order:   *)
(* on every element with denom # 0 and for every mixed index j in 0..5,    *)
(* pure and mixed alike, the 3D second derivatives of all shape indices    *)
(* sum to zero.                                                            *)
C11_SecondDerivativesSumToZero ==
  (ReturnedFrom(3, "shape_second_deriv") /\ Denom # Zero /\ call.j \in 0 .. 5)
    => SumOver(Nodes, SecondDerivatives) = Zero

====
